---- MODULE Spec2Model ----
(***************************************************************************)
(* Model of scripts/generate_clean_pages.py: the clean-URL page generator. *)
(*                                                                         *)
(* Text (file contents, URLs, file names) is a sequence of tokens whose    *)
(* concatenation is the text.  The characters the code's regular           *)
(* expression and substring tests look at one by one -- the two quote      *)
(* characters, ">", "/", "." and the backslash -- are always tokens of     *)
(* their own; every other token is a word that contains none of them (a    *)
(* domain's scheme "https://e.com" holds "/" and "." inside, which no      *)
(* operation below inspects: rstrip only looks at the end of the text).    *)
(* A path is a sequence of names relative to ROOT, a name a sequence of    *)
(* tokens.                                                                 *)
(***************************************************************************)
EXTENDS Naturals, Sequences, FiniteSets

VARIABLES
    fs,                  \* the files below ROOT: path -> content
    dirs,                \* the directories below ROOT
    runs,                \* how many calls of run() were started
    pc,                  \* position inside run(): idle | loop | backup_target |
                         \*   write_target | legacy | backup_legacy | write_legacy | done
    args,                \* the parameters of the current call of run()
    files, idx,          \* run(): the list of page files and the loop position
    f,                   \* run(): the loop variable (ROOT before the first iteration)
    created, modified,   \* run(): the two result lists
    out,                 \* what the current call printed
    target_dir, target_index, clean_url,       \* run(): locals of one iteration
    new_content, write_backup_target, new_orig,
    fs0, dirs0,          \* history: the tree when the current call started
    fsPage,              \* history: the files when the current iteration started
    overwrites,          \* history: the forced overwrites of the current call, each
                         \*   [target, before, generated]
    rerun,               \* history: the current call repeats the previous call's arguments
    probe                \* the injectors applied on their own (SpecFn)

vars == <<fs, dirs, runs, pc, args, files, idx, f, created, modified, out,
          target_dir, target_index, clean_url, new_content, write_backup_target,
          new_orig, fs0, dirs0, fsPage, overwrites, rerun, probe>>

\* ------------------------------------------------------------------ bounds

\* calls of run() in one behaviour
MaxRuns == 2
\* applications of an injector to one document in SpecFn
MaxApply == 2
\* trailing slashes on the --domain argument
MaxSlashes == 1

\* ------------------------------------------------------------------ text

DQ == "\""
SQ == "'"
Quotes == {DQ, SQ}

Last(s) == s[Len(s)]
Front(s) == SubSeq(s, 1, Len(s) - 1)

Max(S) == CHOOSE x \in S : \A y \in S : y <= x
Min(S) == CHOOSE x \in S : \A y \in S : x <= y

\* re.I: the letters of the pattern match either case
Lower(t) ==
    CASE t = "<LINK" -> "<link"
      [] t = "REL=" -> "rel="
      [] t = "CANONICAL" -> "canonical"
      [] t = "HREF=" -> "href="
      [] OTHER -> t

\* needle in hay (str.__contains__)
Contains(hay, needle) ==
    \E k \in 1..(Len(hay) - Len(needle) + 1) :
        SubSeq(hay, k, k + Len(needle) - 1) = needle

\* hay.replace(old, new): every non-overlapping occurrence, left to right
RECURSIVE Replace(_, _, _)
Replace(hay, old, new) ==
    IF ~Contains(hay, old) THEN hay
    ELSE LET k == Min({j \in 1..(Len(hay) - Len(old) + 1) :
                          SubSeq(hay, j, j + Len(old) - 1) = old})
         IN  SubSeq(hay, 1, k - 1) \o new
                 \o Replace(SubSeq(hay, k + Len(old), Len(hay)), old, new)

\* s.rstrip('/')
RECURSIVE RStripSlash(_)
RStripSlash(s) ==
    IF s # <<>> /\ Last(s) = "/" THEN RStripSlash(Front(s)) ELSE s

HEAD_CLOSE == <<"</head", ">">>

\* ------------------------------------------------------------------ CANONICAL_RE

\* One match of CANONICAL_RE in s that starts at token i:
\*   <link [^>]* rel=["']canonical["'] [^>]* href=["']  ([^"']+)  (["'][^>]*>)
\* r is the place of rel=, h the place of href=, e the last token of group 2,
\* z the closing ">".
NoGT(s, a, b) == \A k \in a..b : s[k] # ">"
NoQuote(s, a, b) == \A k \in a..b : s[k] \notin Quotes

\* where "rel=" quote "canonical" quote may stand after "<link" [^>]* from token i
RelPlaces(s, i) ==
    {r \in (i + 1)..(Len(s) - 3) :
        /\ NoGT(s, i + 1, r - 1)
        /\ Lower(s[r]) = "rel=" /\ s[r + 1] \in Quotes
        /\ Lower(s[r + 2]) = "canonical" /\ s[r + 3] \in Quotes}

\* where "href=" quote may stand after the rel attribute at r and [^>]*
HrefPlaces(s, r) ==
    {h \in (r + 4)..(Len(s) - 1) :
        /\ NoGT(s, r + 4, h - 1)
        /\ Lower(s[h]) = "href=" /\ s[h + 1] \in Quotes}

\* ([^"']+) after href= at h runs to the token before the next quote
QuotesAfter(s, h) == {k \in (h + 2)..Len(s) : s[k] \in Quotes}
ClosersAfter(s, q) == {k \in (q + 1)..Len(s) : s[k] = ">"}

\* The rest of the pattern matches after href= at h: group 2 is not empty, a quote
\* follows it, and a ">" follows that.
Completes(s, h) ==
    /\ QuotesAfter(s, h) # {}
    /\ Min(QuotesAfter(s, h)) >= h + 3
    /\ ClosersAfter(s, Min(QuotesAfter(s, h))) # {}

\* the places of rel= from which the rest of the pattern can still match
RelChoices(s, i) ==
    {r \in RelPlaces(s, i) : \E h \in HrefPlaces(s, r) : Completes(s, h)}

\* the pattern matches starting at token i
HasMatchAt(s, i) == Lower(s[i]) = "<link" /\ RelChoices(s, i) # {}

\* The match <<r, h, e, z>> the backtracking engine returns at i: the quantifiers
\* are greedy, so the first [^>]* is as long as a match allows, then the second;
\* group 2 and the tail are then determined.
GreedyMatch(s, i) ==
    LET r == Max(RelChoices(s, i))
        h == Max({x \in HrefPlaces(s, r) : Completes(s, x)})
        q == Min(QuotesAfter(s, h))
    IN  <<r, h, q - 1, Min(ClosersAfter(s, q))>>

\* the starts of matches at or after token from
MatchStarts(s, from) == {i \in from..Len(s) : HasMatchAt(s, i)}

\* CANONICAL_RE.search(content)
CanonicalSearch(content) == MatchStarts(content, 1) # {}

\* CANONICAL_RE.sub(lambda m: m.group(1) + canonical_url + m.group(3), content),
\* on the text from token from on
RECURSIVE CanonicalSub(_, _, _)
CanonicalSub(s, canonical_url, from) ==
    IF MatchStarts(s, from) = {} THEN SubSeq(s, from, Len(s))
    ELSE LET i == Min(MatchStarts(s, from))
             m == GreedyMatch(s, i)
         IN  SubSeq(s, from, m[2] + 1) \o canonical_url \o SubSeq(s, m[3] + 1, m[4])
                 \o CanonicalSub(s, canonical_url, m[4] + 1)

\* ------------------------------------------------------------------ injectors

CanonicalInsert(canonical_url) ==
    <<"  ", "<link", " ", "rel=", DQ, "canonical", DQ, " ", "href=", DQ>>
        \o canonical_url \o <<DQ, ">", "\n">>

\* add_canonical_to_html(content, canonical_url) = <<new_content, changed>>
AddCanonicalToHtml(content, canonical_url) ==
    IF CanonicalSearch(content)
    THEN LET new == CanonicalSub(content, canonical_url, 1)
         IN  <<new, new # content>>
    ELSE IF Contains(content, HEAD_CLOSE)
         THEN <<Replace(content, HEAD_CLOSE, CanonicalInsert(canonical_url) \o HEAD_CLOSE), TRUE>>
         ELSE <<CanonicalInsert(canonical_url) \o content, TRUE>>

\* str(seconds)
IntStr(n) == <<"0", "1", "2", "3", "4", "5", "6", "7", "8", "9">>[n + 1]

MetaTag(target_url, seconds) ==
    <<"<meta http-equiv=", DQ, "refresh", DQ, " content=", DQ, IntStr(seconds), "; url=">>
        \o target_url \o <<DQ, ">", "\n">>

\* add_meta_refresh(content, target_url, seconds) = <<new_content, changed>>
AddMetaRefresh(content, target_url, seconds) ==
    LET meta == MetaTag(target_url, seconds)
    IN  IF Contains(content, meta) THEN <<content, FALSE>>
        ELSE IF Contains(content, HEAD_CLOSE)
             THEN <<Replace(content, HEAD_CLOSE, <<"  ">> \o meta \o HEAD_CLOSE), TRUE>>
             ELSE <<meta \o content, TRUE>>

\* ------------------------------------------------------------------ paths

ROOT == <<>>
PAGES_DIR == ROOT \o <<<<"pages">>>>
EXCLUDE_DIRS == {<<"assets">>, <<".", "git">>}
HTML_EXT == <<".", "html">>
INDEX_HTML == <<"index">> \o HTML_EXT

\* PurePath.suffix of a name: from its last dot on, unless that dot is the name's
\* first or last character
Suffix(name) ==
    LET dots == {k \in 1..Len(name) : name[k] = "."}
    IN  IF dots # {} /\ 1 < Max(dots) /\ Max(dots) < Len(name)
        THEN SubSeq(name, Max(dots), Len(name))
        ELSE <<>>

\* path.with_suffix(suffix)
WithSuffix(path, suffix) ==
    LET name == Last(path)
        old == Suffix(name)
    IN  Front(path) \o <<SubSeq(name, 1, Len(name) - Len(old)) \o suffix>>

\* str(path) of a relative path: its names joined by "/"
RECURSIVE Str(_)
Str(path) ==
    IF path = <<>> THEN <<>>
    ELSE IF Len(path) = 1 THEN path[1]
    ELSE path[1] \o <<"/">> \o Str(Tail(path))

\* text.replace('\\', '/')
SlashesForward(text) == [k \in DOMAIN text |-> IF text[k] = "\\" THEN "/" ELSE text[k]]

\* the directories above a path
Parents(path) == {SubSeq(path, 1, k) : k \in 0..(Len(path) - 1)}

\* fnmatch(name, '*.html')
IsHtmlName(name) ==
    Len(name) >= Len(HTML_EXT) /\ SubSeq(name, Len(name) - 1, Len(name)) = HTML_EXT

IsUnder(path, dir) == Len(path) > Len(dir) /\ SubSeq(path, 1, Len(dir)) = dir

\* find_page_files(root), as a set: the list's order is the directory walk's
FindPageFiles(tree, folders) ==
    IF PAGES_DIR \notin folders THEN {}
    ELSE {file \in DOMAIN tree :
            /\ IsUnder(file, PAGES_DIR)
            /\ IsHtmlName(Last(file))
            /\ ~\E k \in 1..Len(file) : file[k] \in EXCLUDE_DIRS}

\* the orders in which the walk may list a set of files
Orders(S) ==
    {o \in [1..Cardinality(S) -> S] : \A a, b \in 1..Cardinality(S) : o[a] = o[b] => a = b}

\* f.relative_to(PAGES_DIR)
RelativeToPages(file) == SubSeq(file, Len(PAGES_DIR) + 1, Len(file))

\* str(rel.with_suffix('')).replace('\\', '/')
RelNoSuffix(rel) == SlashesForward(Str(WithSuffix(rel, <<>>)))

\* run(): str(rel.with_suffix('')) == 'index'
IsRootIndex(rel) == Str(WithSuffix(rel, <<>>)) = <<"index">>

\* the root index page treated like any other page
TargetDir_NoRootCase(rel) == ROOT \o WithSuffix(rel, <<>>)

\* run(): target_dir
TargetDir(rel) == IF IsRootIndex(rel) THEN ROOT ELSE ROOT \o WithSuffix(rel, <<>>)

\* run(): target_index
TargetIndex(rel) == TargetDir(rel) \o <<INDEX_HTML>>

\* run(): clean_url
CleanUrl(domain, rel) ==
    IF IsRootIndex(rel) THEN RStripSlash(domain) \o <<"/">>
    ELSE RStripSlash(domain) \o <<"/">> \o RelNoSuffix(rel)

\* run(): the target of the meta refresh put into the legacy page
RedirectTarget(rel) == <<"/">> \o RelNoSuffix(rel)

\* write_backup(path): the .bak sibling
BackupPath(path) == WithSuffix(path, Suffix(Last(path)) \o <<".", "bak">>)

\* path.write_text(content) and shutil.copy2(src, dst) on the tree
WriteFile(tree, path, content) ==
    [q \in DOMAIN tree \cup {path} |-> IF q = path THEN content ELSE tree[q]]

\* ensure_dir(path): mkdir(parents=True, exist_ok=True)
EnsureDir(folders, path) == folders \cup Parents(path) \cup {path}

\* ------------------------------------------------------------------ inputs

\* page contents: a canonical tag in double quotes, one in single quotes, a head
\* without a canonical tag, and a text with neither
DocDouble ==
    <<"<link", " ", "rel=", DQ, "canonical", DQ, " ", "href=", DQ, "old", DQ, ">", "</head", ">">>
DocSingle ==
    <<"<link", " ", "rel=", SQ, "canonical", SQ, " ", "href=", SQ, "old", SQ, ">", "</head", ">">>
DocHead == <<"<head", ">", "</head", ">", "text">>
DocPlain == <<"text">>
Contents == {DocDouble, DocSingle, DocHead, DocPlain}

\* a clean copy edited by hand before the run
DocManual == <<"manual">>

\* page files: pages/a.html, pages/index.html, pages/pages/a.html (whose clean
\* copy pages/a/index.html lies below pages/), pages/.html, pages/o'b.html and
\* pages/assets/a.html
PageA == PAGES_DIR \o <<<<"a">> \o HTML_EXT>>
PageIndex == PAGES_DIR \o <<INDEX_HTML>>
PageNested == PAGES_DIR \o <<<<"pages">>, <<"a">> \o HTML_EXT>>
PageDot == PAGES_DIR \o <<HTML_EXT>>
PageQuote == PAGES_DIR \o <<<<"o", SQ, "b">> \o HTML_EXT>>
PageAsset == PAGES_DIR \o <<<<"assets">>, <<"a">> \o HTML_EXT>>
PageCandidates == {PageA, PageIndex, PageNested, PageDot, PageQuote, PageAsset}

\* a site: one page and, when hasClean, its clean copy from an earlier run
SiteFiles(page, content, hasClean) ==
    LET clean == TargetIndex(RelativeToPages(page))
    IN  [q \in {page} \cup (IF hasClean THEN {clean} ELSE {}) |->
            IF q = page THEN content ELSE DocManual]

DirsOf(tree) == UNION {Parents(q) : q \in DOMAIN tree}

\* --domain: the site's domain, with or without trailing slashes
BaseDomain == <<"https://e.com">>
RECURSIVE Slashes(_)
Slashes(n) == IF n = 0 THEN <<>> ELSE <<"/">> \o Slashes(n - 1)
Domains == {BaseDomain \o Slashes(k) : k \in 0..MaxSlashes}

\* the parameters of run(); apply is not read by run() and is left out
ArgSets ==
    [dry_run : BOOLEAN, canonical_old : BOOLEAN, redirect_old : BOOLEAN,
     redirect_type : {"meta"}, domain : Domains, force : BOOLEAN]

NoArgs ==
    [dry_run |-> TRUE, canonical_old |-> FALSE, redirect_old |-> FALSE,
     redirect_type |-> "meta", domain |-> BaseDomain, force |-> FALSE]

NoProbe ==
    [fn |-> "none", doc |-> <<>>, url |-> <<>>, seconds |-> 0, prev |-> <<>>,
     changed |-> FALSE, napp |-> 0]

\* ------------------------------------------------------------------ run()

Init ==
    /\ \E page \in PageCandidates, content \in Contents, hasClean \in BOOLEAN :
          fs = SiteFiles(page, content, hasClean)
    /\ dirs = DirsOf(fs)
    /\ runs = 0
    /\ pc = "idle"
    /\ args = NoArgs
    /\ files = <<>> /\ idx = 1 /\ f = ROOT
    /\ created = <<>> /\ modified = <<>> /\ out = <<>>
    /\ target_dir = ROOT /\ target_index = ROOT /\ clean_url = <<>>
    /\ new_content = <<>> /\ write_backup_target = FALSE /\ new_orig = <<>>
    /\ fs0 = fs /\ dirs0 = dirs /\ fsPage = fs /\ overwrites = <<>>
    /\ rerun = FALSE
    /\ probe = NoProbe

\* the locals of one iteration, as a call of run() finds them
FreshLocals ==
    /\ f' = ROOT
    /\ target_dir' = ROOT /\ target_index' = ROOT /\ clean_url' = <<>>
    /\ new_content' = <<>> /\ write_backup_target' = FALSE /\ new_orig' = <<>>

\* run() is called: files = find_page_files(ROOT), created = [], modified = []
Begin(a, order, repeats) ==
    /\ runs < MaxRuns
    /\ runs' = runs + 1
    /\ args' = a
    /\ files' = order /\ idx' = 1
    /\ created' = <<>> /\ modified' = <<>> /\ out' = <<>>
    /\ FreshLocals
    /\ pc' = "loop"
    /\ fs0' = fs /\ dirs0' = dirs /\ fsPage' = fs /\ overwrites' = <<>>
    /\ rerun' = repeats
    /\ UNCHANGED <<fs, dirs, probe>>

StartRun ==
    /\ pc = "idle"
    /\ \E a \in ArgSets, order \in Orders(FindPageFiles(fs, dirs)) : Begin(a, order, FALSE)

\* the operator runs the command again with the same flags
Rerun ==
    /\ pc = "done"
    /\ \E order \in Orders(FindPageFiles(fs, dirs)) : Begin(args, order, TRUE)

\* the iteration's mapping of files[idx]
SetMapping ==
    LET rel == RelativeToPages(files[idx])
    IN  /\ f' = files[idx]
        /\ target_dir' = TargetDir(rel)
        /\ target_index' = TargetIndex(rel)
        /\ clean_url' = CleanUrl(args.domain, rel)

InLoop == pc = "loop" /\ idx <= Len(files)

\* ensure_dir(target_dir) moved in front of the dry_run test
DryReport_EnsuresDir ==
    /\ InLoop /\ args.dry_run
    /\ SetMapping
    /\ dirs' = EnsureDir(dirs, TargetDir(RelativeToPages(files[idx])))
    /\ out' = Append(out, <<"dry", TargetIndex(RelativeToPages(files[idx]))>>)
    /\ idx' = idx + 1
    /\ fsPage' = fs
    /\ UNCHANGED <<fs, runs, pc, args, files, created, modified, new_content,
                   write_backup_target, new_orig, fs0, dirs0, overwrites, rerun, probe>>

\* if dry_run: print("[DRY] Will create ...")
DryReport ==
    /\ InLoop /\ args.dry_run
    /\ SetMapping
    /\ out' = Append(out, <<"dry", TargetIndex(RelativeToPages(files[idx]))>>)
    /\ idx' = idx + 1
    /\ fsPage' = fs
    /\ UNCHANGED <<fs, dirs, runs, pc, args, files, created, modified, new_content,
                   write_backup_target, new_orig, fs0, dirs0, overwrites, rerun, probe>>

\* if target_index.exists() and not force: print("Skipping existing target ...")
SkipExisting ==
    /\ InLoop /\ ~args.dry_run
    /\ TargetIndex(RelativeToPages(files[idx])) \in DOMAIN fs /\ ~args.force
    /\ SetMapping
    /\ out' = Append(out, <<"skip", TargetIndex(RelativeToPages(files[idx]))>>)
    /\ pc' = "legacy"
    /\ fsPage' = fs
    /\ UNCHANGED <<fs, dirs, runs, args, files, idx, created, modified, new_content,
                   write_backup_target, new_orig, fs0, dirs0, overwrites, rerun, probe>>

\* else: ensure_dir(target_dir); content = f.read_text(); new_content, _ =
\* add_canonical_to_html(content, clean_url); write_backup_target = exists and force
BeginCreate ==
    /\ InLoop /\ ~args.dry_run
    /\ ~(TargetIndex(RelativeToPages(files[idx])) \in DOMAIN fs /\ ~args.force)
    /\ SetMapping
    /\ dirs' = EnsureDir(dirs, TargetDir(RelativeToPages(files[idx])))
    /\ new_content' = AddCanonicalToHtml(fs[files[idx]],
                          CleanUrl(args.domain, RelativeToPages(files[idx])))[1]
    /\ write_backup_target' =
          (TargetIndex(RelativeToPages(files[idx])) \in DOMAIN fs /\ args.force)
    /\ pc' = IF TargetIndex(RelativeToPages(files[idx])) \in DOMAIN fs /\ args.force
             THEN "backup_target" ELSE "write_target"
    /\ fsPage' = fs
    /\ UNCHANGED <<fs, runs, args, files, idx, created, modified, out, new_orig,
                   fs0, dirs0, overwrites, rerun, probe>>

\* write_backup(target_index)
BackupTarget ==
    /\ pc = "backup_target"
    /\ fs' = WriteFile(fs, BackupPath(target_index), fs[target_index])
    /\ pc' = "write_target"
    /\ UNCHANGED <<dirs, runs, args, files, idx, f, created, modified, out, target_dir,
                   target_index, clean_url, new_content, write_backup_target, new_orig,
                   fs0, dirs0, fsPage, overwrites, rerun, probe>>

\* target_index.write_text(new_content); created.append(target_index); print("Created ...")
WriteTarget ==
    /\ pc = "write_target"
    /\ fs' = WriteFile(fs, target_index, new_content)
    /\ created' = Append(created, target_index)
    /\ out' = Append(out, <<"created", target_index>>)
    /\ overwrites' = IF write_backup_target
                      THEN Append(overwrites, [target |-> target_index,
                               before |-> fs[target_index], generated |-> new_content])
                      ELSE overwrites
    /\ pc' = "legacy"
    /\ UNCHANGED <<dirs, runs, args, files, idx, f, modified, target_dir, target_index,
                   clean_url, new_content, write_backup_target, new_orig, fs0, dirs0,
                   fsPage, rerun, probe>>

\* run(), lines 134-142: <<new_orig, changed_any>> from the legacy page's content
LegacyUpdate(orig_content, a, url, rel) ==
    LET canon == IF a.canonical_old THEN AddCanonicalToHtml(orig_content, url)
                 ELSE <<orig_content, FALSE>>
        meta == IF a.redirect_old /\ a.redirect_type = "meta"
                THEN AddMetaRefresh(canon[1], RedirectTarget(rel), 0)
                ELSE <<canon[1], FALSE>>
    IN  <<meta[1], canon[2] \/ meta[2]>>

\* the legacy block nested under the else branch: a skipped page goes on to the
\* next file
LegacyStep_NotAfterSkip ==
    /\ pc = "legacy"
    /\ LET wanted == (args.canonical_old \/ args.redirect_old)
                         /\ ~(out # <<>> /\ Last(out) = <<"skip", target_index>>)
           upd == LegacyUpdate(fs[f], args, clean_url, RelativeToPages(f))
       IN  IF wanted /\ upd[2]
           THEN /\ new_orig' = upd[1]
                /\ pc' = "backup_legacy"
                /\ idx' = idx
           ELSE /\ new_orig' = IF wanted THEN upd[1] ELSE new_orig
                /\ pc' = "loop"
                /\ idx' = idx + 1
    /\ UNCHANGED <<fs, dirs, runs, args, files, f, created, modified, out, target_dir,
                   target_index, clean_url, new_content, write_backup_target, fs0, dirs0,
                   fsPage, overwrites, rerun, probe>>

\* if canonical_old or redirect_old: ... if changed_any:
LegacyStep ==
    /\ pc = "legacy"
    /\ LET wanted == args.canonical_old \/ args.redirect_old
           upd == LegacyUpdate(fs[f], args, clean_url, RelativeToPages(f))
       IN  IF wanted /\ upd[2]
           THEN /\ new_orig' = upd[1]
                /\ pc' = "backup_legacy"
                /\ idx' = idx
           ELSE /\ new_orig' = IF wanted THEN upd[1] ELSE new_orig
                /\ pc' = "loop"
                /\ idx' = idx + 1
    /\ UNCHANGED <<fs, dirs, runs, args, files, f, created, modified, out, target_dir,
                   target_index, clean_url, new_content, write_backup_target, fs0, dirs0,
                   fsPage, overwrites, rerun, probe>>

\* the legacy page written without write_backup(f)
BackupLegacy_Missing ==
    /\ pc = "backup_legacy"
    /\ pc' = "write_legacy"
    /\ UNCHANGED <<fs, dirs, runs, args, files, idx, f, created, modified, out, target_dir,
                   target_index, clean_url, new_content, write_backup_target, new_orig,
                   fs0, dirs0, fsPage, overwrites, rerun, probe>>

\* write_backup(f)
BackupLegacy ==
    /\ pc = "backup_legacy"
    /\ fs' = WriteFile(fs, BackupPath(f), fs[f])
    /\ pc' = "write_legacy"
    /\ UNCHANGED <<dirs, runs, args, files, idx, f, created, modified, out, target_dir,
                   target_index, clean_url, new_content, write_backup_target, new_orig,
                   fs0, dirs0, fsPage, overwrites, rerun, probe>>

\* f.write_text(new_orig); modified.append(f); print("Updated legacy file ...")
WriteLegacy ==
    /\ pc = "write_legacy"
    /\ fs' = WriteFile(fs, f, new_orig)
    /\ modified' = Append(modified, f)
    /\ out' = Append(out, <<"updated", f>>)
    /\ pc' = "loop"
    /\ idx' = idx + 1
    /\ UNCHANGED <<dirs, runs, args, files, f, created, target_dir, target_index,
                   clean_url, new_content, write_backup_target, new_orig, fs0, dirs0,
                   fsPage, overwrites, rerun, probe>>

\* print("Done. Created ... pages, modified ... legacy files.")
EndRun ==
    /\ pc = "loop" /\ idx > Len(files)
    /\ out' = Append(out, <<"done", <<Len(created), Len(modified)>>>>)
    /\ pc' = "done"
    /\ UNCHANGED <<fs, dirs, runs, args, files, idx, f, created, modified, target_dir,
                   target_index, clean_url, new_content, write_backup_target, new_orig,
                   fs0, dirs0, fsPage, overwrites, rerun, probe>>

\* run() has returned: its parameters and locals are gone
Return ==
    /\ pc = "done"
    /\ pc' = "idle"
    /\ args' = NoArgs
    /\ files' = <<>> /\ idx' = 1
    /\ created' = <<>> /\ modified' = <<>> /\ out' = <<>>
    /\ FreshLocals
    /\ fs0' = fs /\ dirs0' = dirs /\ fsPage' = fs /\ overwrites' = <<>>
    /\ rerun' = FALSE
    /\ UNCHANGED <<fs, dirs, runs, probe>>

Next ==
    \/ StartRun \/ Rerun \/ DryReport \/ SkipExisting \/ BeginCreate \/ BackupTarget
    \/ WriteTarget \/ LegacyStep \/ BackupLegacy \/ WriteLegacy \/ EndRun \/ Return

Spec == Init /\ [][Next]_vars

\* ------------------------------------------------------------------ the injectors alone

\* a canonical tag written in capitals, and one left open before the head closes
DocUpper ==
    <<"<LINK", " ", "REL=", DQ, "CANONICAL", DQ, " ", "HREF=", DQ, "old", DQ, ">", "</head", ">">>
DocOpenTag == <<"<link", " ", "rel=", DQ, "canonical", DQ, " ", "href=", DQ, "old", DQ, "</head", ">">>
ProbeDocs == Contents \cup {DocUpper, DocOpenTag}

\* the URLs run() hands to the injectors for the page files above
ProbeUrls == {CleanUrl(d, RelativeToPages(p)) : d \in Domains, p \in PageCandidates}
ProbeTargets == {RedirectTarget(RelativeToPages(p)) : p \in PageCandidates}
ProbeSeconds == {0, 5}

InitFn ==
    /\ fs = SiteFiles(PageA, DocPlain, FALSE)
    /\ dirs = DirsOf(fs)
    /\ runs = 0
    /\ pc = "idle"
    /\ args = NoArgs
    /\ files = <<>> /\ idx = 1 /\ f = ROOT
    /\ created = <<>> /\ modified = <<>> /\ out = <<>>
    /\ target_dir = ROOT /\ target_index = ROOT /\ clean_url = <<>>
    /\ new_content = <<>> /\ write_backup_target = FALSE /\ new_orig = <<>>
    /\ fs0 = fs /\ dirs0 = dirs /\ fsPage = fs /\ overwrites = <<>>
    /\ rerun = FALSE
    /\ \/ \E d \in ProbeDocs, u \in ProbeUrls :
             probe = [fn |-> "canonical", doc |-> d, url |-> u, seconds |-> 0,
                      prev |-> d, changed |-> FALSE, napp |-> 0]
       \/ \E d \in ProbeDocs, t \in ProbeTargets, n \in ProbeSeconds :
             probe = [fn |-> "meta", doc |-> d, url |-> t, seconds |-> n,
                      prev |-> d, changed |-> FALSE, napp |-> 0]

Applied(result) ==
    /\ probe.napp < MaxApply
    /\ probe' = [probe EXCEPT !.prev = probe.doc, !.doc = result[1],
                              !.changed = result[2], !.napp = probe.napp + 1]
    /\ UNCHANGED <<fs, dirs, runs, pc, args, files, idx, f, created, modified, out,
                   target_dir, target_index, clean_url, new_content, write_backup_target,
                   new_orig, fs0, dirs0, fsPage, overwrites, rerun>>

ApplyCanonical ==
    /\ probe.fn = "canonical"
    /\ Applied(AddCanonicalToHtml(probe.doc, probe.url))

ApplyMetaRefresh ==
    /\ probe.fn = "meta"
    /\ Applied(AddMetaRefresh(probe.doc, probe.url, probe.seconds))

NextFn == ApplyCanonical \/ ApplyMetaRefresh

SpecFn == InitFn /\ [][NextFn]_vars

\* ------------------------------------------------------------------ properties

IsBackup(path) ==
    Len(Last(path)) >= 2 /\ SubSeq(Last(path), Len(Last(path)) - 1, Len(Last(path))) = <<".", "bak">>

\* the file is absent in both trees or has the same content in both
SameFile(a, b, path) ==
    IF path \in DOMAIN a THEN path \in DOMAIN b /\ a[path] = b[path]
    ELSE path \notin DOMAIN b

Printed(kind, path) == \E k \in 1..Len(out) : out[k][1] = kind /\ out[k][2] = path

\* the page file whose clean copy a created target is
SourceOf(target) == CHOOSE p \in {files[k] : k \in 1..Len(files)} :
                        TargetIndex(RelativeToPages(p)) = target

\* C1: in a dry run, whatever the other flags and the domain, the tree of files and
\* directories stays what it was when the run started.
C1_DryRunWritesNothing ==
    (pc # "idle" /\ args.dry_run) => (fs = fs0 /\ dirs = dirs0)

C1_Witness ==
    /\ pc = "done" /\ args.dry_run
    /\ args.force /\ args.canonical_old /\ args.redirect_old
    /\ args.domain # BaseDomain
    /\ Printed("dry", ROOT \o <<<<"a">>, INDEX_HTML>>)

\* C2: after an apply run without force, every clean target that existed when the
\* run started was reported as skipped and has the content it had.
C2_ExistingCleanKept ==
    (pc = "done" /\ ~args.dry_run /\ ~args.force) =>
        \A k \in 1..Len(files) :
            LET t == TargetIndex(RelativeToPages(files[k]))
            IN  t \in DOMAIN fs0 => (Printed("skip", t) /\ fs[t] = fs0[t])

\* C3: after an apply run with force, every clean target that existed with a
\* content other than the generated one has a .bak sibling holding the content it
\* had just before the overwrite, and holds the generated content.
C3_ForcedOverwriteBackedUp ==
    (pc = "done" /\ ~args.dry_run /\ args.force) =>
        \A k \in 1..Len(overwrites) :
            LET o == overwrites[k]
            IN  o.before # o.generated =>
                    /\ BackupPath(o.target) \in DOMAIN fs
                    /\ fs[BackupPath(o.target)] = o.before
                    /\ fs[o.target] = o.generated

\* The reference mapping of a page path p relative to the pages root.
RefStem(name) == SubSeq(name, 1, Len(name) - Len(HTML_EXT))
RefJoin(dir, name) == IF name = <<>> THEN dir ELSE dir \o <<name>>
RefTarget(p) ==
    IF p = <<INDEX_HTML>> THEN ROOT \o <<INDEX_HTML>>
    ELSE RefJoin(ROOT \o Front(p), RefStem(Last(p))) \o <<INDEX_HTML>>
RefRootUrlOk(domain, url) ==
    \E k \in 0..MaxSlashes : domain = BaseDomain \o Slashes(k) /\ url = BaseDomain \o <<"/">>

Mapped == pc # "idle" /\ f # ROOT

\* C4 as stated: the mapping run() computes for the page it is at agrees with the
\* reference mapping, for every page path ending in .html.
C4_MappingAgrees ==
    Mapped =>
        LET p == RelativeToPages(f)
        IN  /\ target_index = RefTarget(p)
            /\ p = <<INDEX_HTML>> => RefRootUrlOk(args.domain, clean_url)

\* C4 as amended: the same for every page whose file name is more than ".html";
\* a page named ".html" keeps its whole name as the directory.
C4_MappingAgreesNamed ==
    Mapped =>
        LET p == RelativeToPages(f)
        IN  /\ Last(p) # HTML_EXT => target_index = RefTarget(p)
            /\ Last(p) = HTML_EXT => target_index = ROOT \o Front(p) \o <<HTML_EXT, INDEX_HTML>>
            /\ p = <<INDEX_HTML>> => RefRootUrlOk(args.domain, clean_url)

C4_Witness ==
    /\ Mapped /\ f = PageIndex /\ args.domain # BaseDomain
    /\ target_index = <<INDEX_HTML>> /\ clean_url = BaseDomain \o <<"/">>

\* the value of the href attribute that starts at token h: the text between the
\* quote after href= and the next quote of the same kind
HrefValues(s) ==
    {SubSeq(s, h + 2, e - 1) :
        <<h, e>> \in {x \in (1..Len(s)) \X (1..Len(s)) :
            /\ x[1] + 2 <= x[2]
            /\ Lower(s[x[1]]) = "href=" /\ s[x[1] + 1] \in Quotes
            /\ s[x[2]] = s[x[1] + 1]
            /\ \A j \in (x[1] + 2)..(x[2] - 1) : s[j] # s[x[1] + 1]
            /\ \E i \in 1..(x[1] - 1) :
                  /\ Lower(s[i]) = "<link"
                  /\ NoGT(s, i, x[1])
                  /\ \E r \in (i + 1)..(x[1] - 1) :
                        Lower(s[r]) = "rel=" /\ Lower(s[r + 2]) = "canonical"}}

\* C5: every clean copy an apply run created holds a canonical link tag whose href
\* is that page's clean URL.
C5_CreatedHasCanonical ==
    (pc = "done" /\ ~args.dry_run) =>
        \A k \in 1..Len(created) :
            CleanUrl(args.domain, RelativeToPages(SourceOf(created[k])))
                \in HrefValues(fs[created[k]])

\* C6: a second add_canonical_to_html with the same URL returns its input and
\* changed = False.
C6_CanonicalIdempotent ==
    (probe.fn = "canonical" /\ probe.napp = 2) =>
        (probe.doc = probe.prev /\ ~probe.changed)

\* C7, the injector: a second add_meta_refresh with the same target and delay
\* returns its input and changed = False.
C7_MetaRefreshIdempotent ==
    (probe.fn = "meta" /\ probe.napp = 2) =>
        (probe.doc = probe.prev /\ ~probe.changed)

\* C7: an apply run that repeats the previous apply run's flags and domain writes
\* no legacy page, rewrites no legacy .bak and reports no modified legacy file.
C7_RepeatedRunQuiet ==
    (pc = "done" /\ rerun /\ ~args.dry_run) =>
        /\ modified = <<>>
        /\ \A k \in 1..Len(files) :
              /\ SameFile(fs0, fs, files[k])
              /\ SameFile(fs0, fs, BackupPath(files[k]))

\* the page run() is at was reported as skipped
SkippedNow ==
    /\ pc \in {"legacy", "backup_legacy", "write_legacy"}
    /\ Printed("skip", target_index)

\* C8 as stated: once a page is reported as skipped, nothing is written for it.
C8_SkipWritesNothing == SkippedNow => fs = fsPage

\* the legacy page's processing is over for the page that was reported as skipped
SkippedDone ==
    /\ pc \in {"loop", "done"} /\ f # ROOT /\ ~args.dry_run
    /\ Printed("skip", target_index)

\* C8 as amended: a skipped page's clean target and its .bak are left alone and
\* the page is not recorded as created; the legacy step still runs for it: the
\* legacy page is backed up and overwritten exactly when canonical_old or
\* redirect_old is set and the injectors change its content.
C8_SkipThenLegacy ==
    /\ (SkippedNow \/ SkippedDone) =>
          /\ SameFile(fsPage, fs, target_index)
          /\ SameFile(fsPage, fs, BackupPath(target_index))
          /\ \A k \in 1..Len(created) : created[k] # target_index
    /\ SkippedDone =>
          LET upd == LegacyUpdate(fsPage[f], args, clean_url, RelativeToPages(f))
          IN  IF (args.canonical_old \/ args.redirect_old) /\ upd[2]
              THEN /\ fs[f] = upd[1]
                   /\ BackupPath(f) \in DOMAIN fs /\ fs[BackupPath(f)] = fsPage[f]
                   /\ modified # <<>> /\ Last(modified) = f
              ELSE /\ fs[f] = fsPage[f]
                   /\ SameFile(fsPage, fs, BackupPath(f))
                   /\ \A k \in 1..Len(modified) : modified[k] # f

C8_Witness ==
    /\ SkippedDone
    /\ fs[f] # fsPage[f]
    /\ args.redirect_old /\ ~args.canonical_old

\* C9: while run() is at a page, every file other than a .bak whose content is no
\* longer what it was when the page was reached has a .bak sibling holding that
\* content; and the legacy page is backed up, overwritten and recorded as modified
\* only with a content the injectors changed.
C9_BackupBeforeOverwrite ==
    pc # "idle" =>
        /\ \A q \in DOMAIN fsPage :
              (~IsBackup(q) /\ fs[q] # fsPage[q]) =>
                  (BackupPath(q) \in DOMAIN fs /\ fs[BackupPath(q)] = fsPage[q])
        /\ pc \in {"backup_legacy", "write_legacy"} => new_orig # fsPage[f]
        /\ (f # ROOT /\ \E k \in 1..Len(modified) : modified[k] = f) =>
              (pc \in {"loop", "done"} /\ fs[f] = new_orig /\ new_orig # fsPage[f])

C9_Witness ==
    /\ pc = "loop" /\ write_backup_target
    /\ fs[target_index] # fsPage[target_index]
    /\ fs[BackupPath(target_index)] = fsPage[target_index]
    /\ fs[f] # fsPage[f]
    /\ fs[BackupPath(f)] = fsPage[f]

\* the path of a page's clean URL
OwnPath(rel) == IF rel = <<INDEX_HTML>> THEN <<"/">> ELSE <<"/">> \o Str(Front(rel) \o <<RefStem(Last(rel))>>)

\* C10: no clean copy holds a meta refresh to its own clean URL path.
C10_NoSelfRedirect ==
    \A p \in FindPageFiles(fs, dirs) :
        LET t == TargetIndex(RelativeToPages(p))
        IN  t \in DOMAIN fs =>
                ~Contains(fs[t], MetaTag(OwnPath(RelativeToPages(p)), 0))

====
